---------------------------- MODULE Spec2Model ----------------------------
(***************************************************************************)
(* App-key authentication and namespace derivation of wren-ui:             *)
(*   getAppKeyFromContext  (credential extractor)                          *)
(*   checkValidAppKey      (credential validator, apps/keys.ts)            *)
(*   getEncryptedDBName    (namespace deriver, apps/db.ts)                 *)
(* and the request admission that composes them.                           *)
(*                                                                         *)
(* A JavaScript string is modelled as the sequence of its UTF-16 code      *)
(* units.  A JavaScript value is a record [t, v]: t is the type tag        *)
(* ("undefined", "string", "array", "boolean", "Error"), v the payload.     *)
(***************************************************************************)
EXTENDS Integers, Sequences, FiniteSets, TLC

VARIABLES
    APP_KEYS,   \* keys.ts: the module-level array of authorized keys
    hasher,     \* db.ts: the Hash object most recently made by createHash
    headers,    \* per request: ctx.headers, a map from header name to value
    pc,         \* per request: the step the request is at
    appKey,     \* per request: what getAppKeyFromContext returned
    error,      \* per request: the Error thrown to the caller, if any
    valid,      \* per request: what checkValidAppKey returned
    dbName,     \* per request: what getEncryptedDBName returned (or threw)
    context     \* per request: the assembled Request Context

vars == <<APP_KEYS, hasher, headers, pc, appKey, error, valid, dbName, context>>

----------------------------------------------------------------------------
(* Bounds *)

NumRequests == 2

Requests == 1..NumRequests

----------------------------------------------------------------------------
(* JavaScript strings as UTF-16 code units *)

Chars == " ,-0123456789ABCDEFGHIJKLMNOPQRSTUVWXYZ_abcdefghijklmnopqrstuvwxyz"

CharCodes ==
    <<32, 44, 45>>
    \o [i \in 1..10 |-> 47 + i]
    \o [i \in 1..26 |-> 64 + i]
    \o <<95>>
    \o [i \in 1..26 |-> 96 + i]

CodeOf == [c \in {SubSeq(Chars, i, i) : i \in 1..Len(Chars)} |->
              CharCodes[CHOOSE i \in 1..Len(Chars) : SubSeq(Chars, i, i) = c]]

\* the code units of an ASCII literal
Str(s) == [i \in 1..Len(s) |-> CodeOf[SubSeq(s, i, i)]]

HYPHEN == 45
UNDERSCORE == 95

undefined == [t |-> "undefined", v |-> <<>>]
JSString(units) == [t |-> "string", v |-> units]
JSArray(elems) == [t |-> "array", v |-> elems]
JSError(msg) == [t |-> "Error", v |-> msg]
JSBoolean(b) == [t |-> "boolean", v |-> b]
\* a variable of the model that holds nothing yet
None == [t |-> "none", v |-> <<>>]

\* ToBoolean: undefined and "" are falsy, every object (an array) is truthy
ToBoolean(x) ==
    CASE x.t = "undefined" -> FALSE
      [] x.t = "string" -> Len(x.v) > 0
      [] OTHER -> TRUE

\* strict equality of two values of the model
SameValueZero(a, b) == a.t = b.t /\ a.v = b.v

\* obj[name]: the property, or undefined when the object has none
Get(obj, name) == IF name \in DOMAIN obj THEN obj[name] ELSE undefined

\* arr[0]: the first element, or undefined when there is none
Index0(arr) == IF Len(arr.v) > 0 THEN arr.v[1] ELSE undefined

\* slice(40) written for slice(-40): the sign of start is lost
sliceSignLost(s, start) ==
    LET from == IF start < 0 THEN 0 - start ELSE start
    IN  SubSeq(s, (IF from < Len(s) THEN from ELSE Len(s)) + 1, Len(s))

\* String.prototype.slice(start) with one argument
slice(s, start) ==
    LET len == Len(s)
        from == IF start < 0
                THEN (IF len + start > 0 THEN len + start ELSE 0)
                ELSE (IF start < len THEN start ELSE len)
    IN  SubSeq(s, from + 1, len)

\* String.prototype.toLowerCase on ASCII letters
toLowerCase(s) == [i \in 1..Len(s) |-> IF s[i] >= 65 /\ s[i] <= 90 THEN s[i] + 32 ELSE s[i]]

\* is p a prefix of s (s.startsWith(p))
startsWith(s, p) == Len(p) <= Len(s) /\ SubSeq(s, 1, Len(p)) = p

\* s.toLowerCase().replace(/-/g, '_'): the letter case is normalized too
replaceHyphensLowerCase(s) ==
    [i \in 1..Len(s) |-> IF s[i] = HYPHEN THEN UNDERSCORE ELSE toLowerCase(s)[i]]

\* s.replace('-', '_'): only the first match is replaced
RECURSIVE replaceFirstFrom(_, _)
replaceFirstFrom(s, i) ==
    IF i > Len(s) THEN s
    ELSE IF s[i] = HYPHEN
         THEN SubSeq(s, 1, i - 1) \o <<UNDERSCORE>> \o SubSeq(s, i + 1, Len(s))
         ELSE replaceFirstFrom(s, i + 1)

replaceFirstOnly(s) == replaceFirstFrom(s, 1)

\* s.replace(/-/g, '_'): scan from lastIndex 0, replace every match
RECURSIVE replaceFrom(_, _)
replaceFrom(s, i) ==
    IF i > Len(s) THEN <<>>
    ELSE (IF s[i] = HYPHEN THEN <<UNDERSCORE>> ELSE <<s[i]>>) \o replaceFrom(s, i + 1)

replaceHyphens(s) == replaceFrom(s, 1)

\* the UTF-8 bytes a string is hashed by (hasher.update(string)): a surrogate
\* pair is one 4-byte code point, a lone surrogate is U+FFFD (EF BF BD)
IsHigh(u) == u >= 55296 /\ u <= 56319
IsLow(u) == u >= 56320 /\ u <= 57343

RECURSIVE utf8From(_, _)
utf8From(s, i) ==
    IF i > Len(s) THEN <<>>
    ELSE LET u == s[i]
         IN  IF u < 128 THEN <<u>> \o utf8From(s, i + 1)
             ELSE IF u < 2048
             THEN <<192 + (u \div 64), 128 + (u % 64)>> \o utf8From(s, i + 1)
             ELSE IF IsHigh(u) /\ i < Len(s) /\ IsLow(s[i + 1])
             THEN LET hi == u - 55296
                      lo == s[i + 1] - 56320
                      \* code point - 0x10000 = hi * 1024 + lo, below 2^20
                  IN  <<240 + ((hi + 64) \div 256),
                        128 + (((hi + 64) \div 4) % 64),
                        128 + ((hi % 4) * 16) + (lo \div 64),
                        128 + (lo % 64)>> \o utf8From(s, i + 2)
             ELSE IF IsHigh(u) \/ IsLow(u)
             THEN <<239, 191, 189>> \o utf8From(s, i + 1)
             ELSE <<224 + (u \div 4096), 128 + ((u \div 64) % 64), 128 + (u % 64)>>
                  \o utf8From(s, i + 1)

utf8Encode(s) == utf8From(s, 1)

----------------------------------------------------------------------------
(* SHA-256 (crypto.createHash('sha256')), FIPS 180-4.  A 32-bit word is     *)
(* <<hi, lo>>, its two 16-bit halves, so that no sum leaves 32 bits.        *)

P2 == <<1, 2, 4, 8, 16, 32, 64, 128, 256, 512, 1024, 2048, 4096, 8192, 16384, 32768, 65536>>
Pow2(n) == P2[n + 1]

RECURSIVE XorBits(_, _, _, _)
XorBits(a, b, c, n) ==
    IF n = 0 THEN 0
    ELSE ((a + b + c) % 2) + 2 * XorBits(a \div 2, b \div 2, c \div 2, n - 1)

RECURSIVE ChBits(_, _, _, _)
ChBits(e, f, g, n) ==
    IF n = 0 THEN 0
    ELSE (IF e % 2 = 1 THEN f % 2 ELSE g % 2)
         + 2 * ChBits(e \div 2, f \div 2, g \div 2, n - 1)

RECURSIVE MajBits(_, _, _, _)
MajBits(a, b, c, n) ==
    IF n = 0 THEN 0
    ELSE (((a % 2) + (b % 2) + (c % 2)) \div 2)
         + 2 * MajBits(a \div 2, b \div 2, c \div 2, n - 1)

\* the three bitwise functions on 4-bit digits, tabulated
XorTab == [p \in 1..16 |-> [q \in 1..16 |-> [r \in 1..16 |-> XorBits(p - 1, q - 1, r - 1, 4)]]]
ChTab == [p \in 1..16 |-> [q \in 1..16 |-> [r \in 1..16 |-> ChBits(p - 1, q - 1, r - 1, 4)]]]
MajTab == [p \in 1..16 |-> [q \in 1..16 |-> [r \in 1..16 |-> MajBits(p - 1, q - 1, r - 1, 4)]]]

\* a bitwise function of three 16-bit values, digit by digit
Nibbles(T, a, b, c) ==
      T[(a % 16) + 1][(b % 16) + 1][(c % 16) + 1]
    + 16 * T[((a \div 16) % 16) + 1][((b \div 16) % 16) + 1][((c \div 16) % 16) + 1]
    + 256 * T[((a \div 256) % 16) + 1][((b \div 256) % 16) + 1][((c \div 256) % 16) + 1]
    + 4096 * T[(a \div 4096) + 1][(b \div 4096) + 1][(c \div 4096) + 1]

Xor3(a, b, c) == <<Nibbles(XorTab, a[1], b[1], c[1]), Nibbles(XorTab, a[2], b[2], c[2])>>
Ch(e, f, g) == <<Nibbles(ChTab, e[1], f[1], g[1]), Nibbles(ChTab, e[2], f[2], g[2])>>
Maj(a, b, c) == <<Nibbles(MajTab, a[1], b[1], c[1]), Nibbles(MajTab, a[2], b[2], c[2])>>

RotR(w, n) ==
    LET x == IF n >= 16 THEN <<w[2], w[1]>> ELSE w
        m == n % 16
        p == Pow2(m)
        q == Pow2(16 - m)
    IN  IF m = 0 THEN x
        ELSE <<(x[1] \div p) + (x[2] % p) * q, (x[2] \div p) + (x[1] % p) * q>>

ShR(w, n) ==
    LET p == Pow2(n)
        q == Pow2(16 - n)
    IN  <<w[1] \div p, (w[2] \div p) + (w[1] % p) * q>>

\* addition modulo 2^32
Add(a, b) ==
    LET lo == a[2] + b[2]
        hi == a[1] + b[1] + (lo \div 65536)
    IN  <<hi % 65536, lo % 65536>>

BigSigma0(a) == Xor3(RotR(a, 2), RotR(a, 13), RotR(a, 22))
BigSigma1(e) == Xor3(RotR(e, 6), RotR(e, 11), RotR(e, 25))
SmallSigma0(w) == Xor3(RotR(w, 7), RotR(w, 18), ShR(w, 3))
SmallSigma1(w) == Xor3(RotR(w, 17), RotR(w, 19), ShR(w, 10))

HexDigits == "0123456789abcdef"
HexVal(c) == (CHOOSE i \in 1..16 : SubSeq(HexDigits, i, i) = c) - 1
Hex4(s) == HexVal(SubSeq(s, 1, 1)) * 4096 + HexVal(SubSeq(s, 2, 2)) * 256
           + HexVal(SubSeq(s, 3, 3)) * 16 + HexVal(SubSeq(s, 4, 4))
Word(s) == <<Hex4(SubSeq(s, 1, 4)), Hex4(SubSeq(s, 5, 8))>>

KHex == <<
 "428a2f98","71374491","b5c0fbcf","e9b5dba5","3956c25b","59f111f1","923f82a4","ab1c5ed5",
 "d807aa98","12835b01","243185be","550c7dc3","72be5d74","80deb1fe","9bdc06a7","c19bf174",
 "e49b69c1","efbe4786","0fc19dc6","240ca1cc","2de92c6f","4a7484aa","5cb0a9dc","76f988da",
 "983e5152","a831c66d","b00327c8","bf597fc7","c6e00bf3","d5a79147","06ca6351","14292967",
 "27b70a85","2e1b2138","4d2c6dfc","53380d13","650a7354","766a0abb","81c2c92e","92722c85",
 "a2bfe8a1","a81a664b","c24b8b70","c76c51a3","d192e819","d6990624","f40e3585","106aa070",
 "19a4c116","1e376c08","2748774c","34b0bcb5","391c0cb3","4ed8aa4a","5b9cca4f","682e6ff3",
 "748f82ee","78a5636f","84c87814","8cc70208","90befffa","a4506ceb","bef9a3f7","c67178f2" >>
K == [i \in 1..64 |-> Word(KHex[i])]

H0Hex == <<"6a09e667","bb67ae85","3c6ef372","a54ff53a","510e527f","9b05688c","1f83d9ab","5be0cd19">>
H0 == [i \in 1..8 |-> Word(H0Hex[i])]

RECURSIVE Zeros(_)
Zeros(n) == IF n = 0 THEN <<>> ELSE <<0>> \o Zeros(n - 1)

\* the message, a 1 bit, zeros, and the bit length in 64 bits
Pad(bytes) ==
    LET l == Len(bytes)
        bits == l * 8
    IN  bytes \o <<128>> \o Zeros((55 - l) % 64)
        \o <<0, 0, 0, 0, 0, (bits \div 65536) % 256, (bits \div 256) % 256, bits % 256>>

BlockWords(p, b) ==
    [i \in 1..16 |->
        LET o == (b - 1) * 64 + (i - 1) * 4
        IN  <<p[o + 1] * 256 + p[o + 2], p[o + 3] * 256 + p[o + 4]>>]

\* Steps lo..hi are run as two halves, the first half's value bound by a
\* quantifier before the second half uses it.
ScheduleStep(w, t) ==
    Append(w, Add(Add(SmallSigma1(w[t - 2]), w[t - 7]), Add(SmallSigma0(w[t - 15]), w[t - 16])))

RECURSIVE Schedule(_, _, _)
Schedule(w, lo, hi) ==
    IF lo = hi THEN ScheduleStep(w, lo)
    ELSE CHOOSE res \in { Schedule(half, ((lo + hi) \div 2) + 1, hi) :
             half \in {Schedule(w, lo, (lo + hi) \div 2)} } : TRUE

Round(s, w, t) ==
    CHOOSE res \in { <<Add(t1, t2), s[1], s[2], s[3], Add(s[4], t1), s[5], s[6], s[7]>> :
        t1 \in {Add(Add(Add(s[8], BigSigma1(s[5])), Add(Ch(s[5], s[6], s[7]), K[t])), w[t])},
        t2 \in {Add(BigSigma0(s[1]), Maj(s[1], s[2], s[3]))} } : TRUE

RECURSIVE Rounds(_, _, _, _)
Rounds(s, w, lo, hi) ==
    IF lo = hi THEN Round(s, w, lo)
    ELSE CHOOSE res \in { Rounds(half, w, ((lo + hi) \div 2) + 1, hi) :
             half \in {Rounds(s, w, lo, (lo + hi) \div 2)} } : TRUE

Compress(h, blockWords) ==
    CHOOSE res \in { [i \in 1..8 |-> Add(h[i], s[i])] :
        s \in { Rounds(h, w, 1, 64) : w \in {Schedule(blockWords, 17, 64)} } } : TRUE

RECURSIVE Blocks(_, _, _)
Blocks(h, p, b) ==
    IF (b - 1) * 64 >= Len(p) THEN h
    ELSE CHOOSE res \in { Blocks(nh, p, b + 1) : nh \in {Compress(h, BlockWords(p, b))} } : TRUE

Sha256(bytes) == Blocks(H0, Pad(bytes), 1)

\* lowercase hexadecimal, as code units
HexUnit(d) == IF d < 10 THEN 48 + d ELSE 87 + d
Hex16(x) == <<HexUnit(x \div 4096), HexUnit((x \div 256) % 16),
              HexUnit((x \div 16) % 16), HexUnit(x % 16)>>

RECURSIVE HexOf(_, _)
HexOf(h, i) == IF i > 8 THEN <<>> ELSE Hex16(h[i][1]) \o Hex16(h[i][2]) \o HexOf(h, i + 1)

Sha256Hex(bytes) == HexOf(Sha256(bytes), 1)

----------------------------------------------------------------------------
(* apps/keys.ts *)

APP_KEYS_INIT == <<
    Str("h31tx1inchlk6xku"),
    Str("MID-E53wKKWTqNzK7ccC"),
    Str("u7unpdh6ehtvrt4b"),
    Str("hzpzvyztoqsxchve"),
    Str("tpi2xy2tg04r2yih"),
    Str("MID-otzQVokbxhN3U9KB"),
    Str("MID-D-RRLYBHrmPPOmm3jL"),
    Str("MID-D-4VMFnTg0xmwfIE1W"),
    Str("MID-MQZcupsb0vaJneBC"),
    Str("MID-w04hXgbIjqQRuVSa") >>

\* Array.prototype.includes: is some element SameValueZero to x
includes(arr, x) == \E i \in 1..Len(arr) : SameValueZero(JSString(arr[i]), x)

\* the comparison made on lower-cased strings
checkValidAppKeyIgnoreCase(key) ==
    [ret |-> /\ key.t = "string"
             /\ \E i \in 1..Len(APP_KEYS) : toLowerCase(APP_KEYS[i]) = toLowerCase(key.v),
     keys |-> APP_KEYS]

\* APP_KEYS.some(k => k.startsWith(appKey)) written for includes
checkValidAppKeyPrefix(key) ==
    [ret |-> /\ key.t = "string"
             /\ \E i \in 1..Len(APP_KEYS) : startsWith(APP_KEYS[i], key.v),
     keys |-> APP_KEYS]

\* a key that is found is moved to the front of APP_KEYS
checkValidAppKeyMoveToFront(key) ==
    [ret |-> includes(APP_KEYS, key),
     keys |-> IF includes(APP_KEYS, key)
              THEN <<key.v>> \o SelectSeq(APP_KEYS, LAMBDA k : k # key.v)
              ELSE APP_KEYS]

\* APP_KEYS.includes(appKey); keys is the array as the call leaves it
checkValidAppKey(key) ==
    [ret |-> includes(APP_KEYS, key), keys |-> APP_KEYS]

----------------------------------------------------------------------------
(* The inputs of the model *)

S(lit) == JSString(Str(lit))

\* the x-app-key values a request may carry: authorized keys, strings one
\* step away from one (letter case, underscore for hyphen, a character
\* short), strings outside ASCII (a euro sign, unpaired surrogates), the
\* empty string, and sequences of values
HeaderValues ==
    {S(""), S("foo"), S("bogus")}
    \cup {S("h31tx1inchlk6xku"), S("MID-D-RRLYBHrmPPOmm3jL"), S("u7unpdh6ehtvrt4b")}
    \cup {S("H31TX1INCHLK6XKU"), S("MID_D_RRLYBHrmPPOmm3jL"), S("h31tx1inchlk6xk")}
    \cup {JSString(<<8364, 45, 97>>), JSString(<<55296>>), JSString(<<56320>>)}
    \cup {JSArray(<<>>), JSArray(<<S("")>>), JSArray(<<S("foo"), S("bar")>>),
          JSArray(<<S("u7unpdh6ehtvrt4b"), S("bogus")>>)}

\* the credentials the header values carry
Credentials ==
    {h.v : h \in {x \in HeaderValues : x.t = "string"}}
    \cup UNION {{h.v[i].v : i \in 1..Len(h.v)} : h \in {x \in HeaderValues : x.t = "array"}}

\* further credentials, which getEncryptedDBName is applied to directly
DirectCredentials ==
    {APP_KEYS_INIT[i] : i \in 1..Len(APP_KEYS_INIT)} \cup {<<233>>, <<55357, 56832>>}

----------------------------------------------------------------------------
(* apps/db.ts *)

MATCHID_PREFIX == Str("matchID_app_")
APP_PREFIX == Str("app_")

NullHash == [t |-> "null", v |-> <<>>, finalized |-> FALSE]

\* one Hash object made once and used by every call
createHashShared ==
    IF hasher.t = "null" THEN [t |-> "Hash", v |-> <<>>, finalized |-> FALSE] ELSE hasher

\* crypto.createHash('sha256'): a new Hash object with nothing fed to it
createHash == [t |-> "Hash", v |-> <<>>, finalized |-> FALSE]

\* hasher.update(str): the string's UTF-8 bytes are appended
update(h, str) == [h EXCEPT !.v = @ \o utf8Encode(str)]

\* The digests of the messages of the model's credentials, computed once.
Sha256Memo ==
    [m \in {utf8Encode(MATCHID_PREFIX \o replaceHyphens(k)) : k \in Credentials \cup DirectCredentials} |->
        Sha256Hex(m)]

\* hasher.digest('hex'): 64 lowercase hexadecimal characters
digest(h) == IF h.v \in DOMAIN Sha256Memo THEN Sha256Memo[h.v] ELSE Sha256Hex(h.v)

TypeErrorReplace == JSError(Str("Cannot read properties of undefined"))
HashFinalized == JSError(Str("Digest already called"))

\* ret is the returned string, or the Error the call throws; hasher is the
\* Hash object the call made, as the call leaves it
getEncryptedDBName(key) ==
    LET hasher0 == createHash
    IN  IF key.t # "string"
        THEN [ret |-> TypeErrorReplace, hasher |-> hasher0]
        ELSE IF hasher0.finalized
        THEN [ret |-> HashFinalized, hasher |-> hasher0]
        ELSE LET hasher1 == update(hasher0, MATCHID_PREFIX \o replaceHyphens(key.v))
                 hashStr == digest(hasher1)
             IN  [ret |-> JSString(APP_PREFIX \o slice(hashStr, -40)),
                  hasher |-> [hasher1 EXCEPT !.finalized = TRUE]]

----------------------------------------------------------------------------
(* getAppKeyFromContext *)

X_APP_KEY == "x-app-key"
MISSING_APP_KEY == JSError(Str("Missing app key, please set x-app-key header to your request"))

\* without the check of line 5
getAppKeyFromContextNoCheck(ctx) ==
    LET appKeys == Get(ctx.headers, X_APP_KEY)
    IN  IF appKeys.t = "array" THEN Index0(appKeys) ELSE appKeys

\* appKeys[appKeys.length - 1] written for appKeys[0]
getAppKeyFromContextLast(ctx) ==
    LET appKeys == Get(ctx.headers, X_APP_KEY)
    IN  IF ~ToBoolean(appKeys)
        THEN MISSING_APP_KEY
        ELSE IF appKeys.t = "array"
             THEN (IF Len(appKeys.v) > 0 THEN appKeys.v[Len(appKeys.v)] ELSE undefined)
             ELSE appKeys

\* ret is the returned value, or the Error the call throws
getAppKeyFromContext(ctx) ==
    LET appKeys == Get(ctx.headers, X_APP_KEY)
    IN  IF ~ToBoolean(appKeys)
        THEN MISSING_APP_KEY
        ELSE IF appKeys.t = "array" THEN Index0(appKeys) ELSE appKeys

----------------------------------------------------------------------------
(* The requests *)

HOST == S("localhost")

\* ctx.headers: with the x-app-key entry, or without it
HeaderMaps ==
    {[n \in {"host"} |-> HOST]}
    \cup {[n \in {"host", X_APP_KEY} |-> IF n = "host" THEN HOST ELSE h] : h \in HeaderValues}

Init ==
    /\ APP_KEYS = APP_KEYS_INIT
    /\ hasher = NullHash
    /\ headers \in [Requests -> HeaderMaps]
    /\ pc = [r \in Requests |-> "extract"]
    /\ appKey = [r \in Requests |-> None]
    /\ error = [r \in Requests |-> None]
    /\ valid = [r \in Requests |-> None]
    /\ dbName = [r \in Requests |-> None]
    /\ context = [r \in Requests |-> None]

\* await getAppKeyFromContext(ctx): a throw rejects the request
Extract(r) ==
    /\ pc[r] = "extract"
    /\ \E res \in {getAppKeyFromContext([headers |-> headers[r]])} :
           IF res.t = "Error"
           THEN /\ error' = [error EXCEPT ![r] = res]
                /\ pc' = [pc EXCEPT ![r] = "rejected"]
                /\ UNCHANGED appKey
           ELSE /\ appKey' = [appKey EXCEPT ![r] = res]
                /\ pc' = [pc EXCEPT ![r] = "validate"]
                /\ UNCHANGED error
    /\ UNCHANGED <<APP_KEYS, hasher, headers, valid, dbName, context>>

INVALID_APP_KEY == JSError(Str("Invalid app key"))

\* await checkValidAppKey(appKey): false rejects the request
Validate(r) ==
    /\ pc[r] = "validate"
    /\ \E res \in {checkValidAppKey(appKey[r])} :
           /\ APP_KEYS' = res.keys
           /\ valid' = [valid EXCEPT ![r] = JSBoolean(res.ret)]
           /\ pc' = [pc EXCEPT ![r] = IF res.ret THEN "derive" ELSE "rejected"]
           /\ error' = [error EXCEPT ![r] = IF res.ret THEN @ ELSE INVALID_APP_KEY]
    /\ UNCHANGED <<hasher, headers, appKey, dbName, context>>

\* await getEncryptedDBName(appKey)
Derive(r) ==
    /\ pc[r] = "derive"
    /\ \E res \in {getEncryptedDBName(appKey[r])} :
           /\ hasher' = res.hasher
           /\ dbName' = [dbName EXCEPT ![r] = res.ret]
           /\ pc' = [pc EXCEPT ![r] = IF res.ret.t = "Error" THEN "rejected" ELSE "assemble"]
           /\ error' = [error EXCEPT ![r] = IF res.ret.t = "Error" THEN res.ret ELSE @]
    /\ UNCHANGED <<APP_KEYS, headers, appKey, valid, context>>

\* the Request Context of an admitted request
Assemble(r) ==
    /\ pc[r] = "assemble"
    /\ context' = [context EXCEPT ![r] = [t |-> "context",
                                          v |-> [headers |-> headers[r], dbName |-> dbName[r]]]]
    /\ pc' = [pc EXCEPT ![r] = "done"]
    /\ UNCHANGED <<APP_KEYS, hasher, headers, appKey, error, valid, dbName>>

Next == \E r \in Requests : Extract(r) \/ Validate(r) \/ Derive(r) \/ Assemble(r)

Spec == Init /\ [][Next]_vars

\* The three functions called one after the other on every input, whatever
\* the validator answers.
CallValidate(r) ==
    /\ pc[r] = "validate"
    /\ \E res \in {checkValidAppKey(appKey[r])} :
           /\ APP_KEYS' = res.keys
           /\ valid' = [valid EXCEPT ![r] = JSBoolean(res.ret)]
           /\ pc' = [pc EXCEPT ![r] = "derive"]
    /\ UNCHANGED <<hasher, headers, appKey, error, dbName, context>>

NextCalls == \E r \in Requests : Extract(r) \/ CallValidate(r) \/ Derive(r)

SpecCalls == Init /\ [][NextCalls]_vars

----------------------------------------------------------------------------
(* Properties *)

HeaderOf(r) == Get(headers[r], X_APP_KEY)
HasHeader(r) == X_APP_KEY \in DOMAIN headers[r]
\* getAppKeyFromContext has returned or thrown
Extracted(r) == pc[r] # "extract"
Returned(r) == appKey[r].t # "none"
Validated(r) == valid[r].t = "boolean"
Derived(r) == dbName[r].t # "none"
Assembled(r) == context[r].t # "none"

AuthorizedSet == {APP_KEYS_INIT[i] : i \in 1..Len(APP_KEYS_INIT)}

\* strings one step away from an authorized key: in letter case, in a hyphen
\* or underscore, a character short, a character long
NearMisses ==
    ( {toLowerCase(k) : k \in AuthorizedSet}
      \cup {[i \in 1..Len(k) |-> IF k[i] >= 97 /\ k[i] <= 122 THEN k[i] - 32 ELSE k[i]] :
               k \in AuthorizedSet}
      \cup {[i \in 1..Len(k) |-> IF k[i] = 45 THEN 95 ELSE k[i]] : k \in AuthorizedSet}
      \cup {SubSeq(k, 1, Len(k) - 1) : k \in AuthorizedSet}
      \cup {SubSeq(k, 2, Len(k)) : k \in AuthorizedSet}
      \cup {k \o <<k[Len(k)]>> : k \in AuthorizedSet}
      \cup {Str("not-a-real-key"), Str("")} ) \ AuthorizedSet

\* no request has begun, or every request has ended
Quiescent ==
    \/ \A r \in Requests : pc[r] = "extract"
    \/ \A r \in Requests : pc[r] \notin {"extract", "validate", "derive"}

\* C1: checkValidAppKey(k) is true exactly when k is, unit for unit, one of
\* the ten entries of APP_KEYS; a string that differs from an entry in letter
\* case, in a hyphen or underscore, or by a missing or added character gets
\* false.
C1_ValidatorExactMembership ==
    /\ Cardinality(AuthorizedSet) = 10
    /\ Quiescent =>
          \A k \in AuthorizedSet \cup NearMisses :
              checkValidAppKey(JSString(k)).ret <=> k \in AuthorizedSet
    /\ \A r \in Requests :
          Validated(r) =>
              (valid[r].v <=> (appKey[r].t = "string" /\ appKey[r].v \in AuthorizedSet))

C1_Witness ==
    \E r1, r2 \in Requests :
        /\ Validated(r1) /\ valid[r1].v /\ appKey[r1].v = Str("MID-D-RRLYBHrmPPOmm3jL")
        /\ Validated(r2) /\ ~valid[r2].v /\ appKey[r2].v = Str("MID_D_RRLYBHrmPPOmm3jL")

\* C2: a request whose headers have no x-app-key entry fails in
\* getAppKeyFromContext with the Missing app key error; no credential is
\* returned, and neither the validator nor the deriver runs for it.
C2_MissingHeaderRejected ==
    \A r \in Requests :
        (~HasHeader(r) /\ Extracted(r)) =>
            /\ error[r] = MISSING_APP_KEY
            /\ pc[r] = "rejected"
            /\ ~Returned(r)
            /\ ~Validated(r)
            /\ ~Derived(r)
            /\ ~Assembled(r)

C2_Witness ==
    \E r1, r2 \in Requests :
        /\ ~HasHeader(r1) /\ pc[r1] = "rejected" /\ error[r1] = MISSING_APP_KEY
        /\ HasHeader(r2) /\ pc[r2] = "done"

\* the value the header carries at index 0 of a sequence of values
FirstOf(h) == IF Len(h.v) = 0 THEN undefined ELSE Head(h.v)

\* C3 as claimed: whenever the x-app-key header is present, the call returns
\* the header value itself if it is one string, and its first element if it
\* is a sequence of values.
C3_Original ==
    \A r \in Requests :
        (HasHeader(r) /\ Extracted(r)) =>
            /\ Returned(r)
            /\ HeaderOf(r).t = "string" => SameValueZero(appKey[r], HeaderOf(r))
            /\ HeaderOf(r).t = "array" => SameValueZero(appKey[r], FirstOf(HeaderOf(r)))

\* C3 amended: a present header that is one non-empty string is returned
\* unchanged; a present header that is a sequence of values yields its
\* element at index 0 (undefined for an empty sequence), whatever follows;
\* a present header that is the empty string is treated as missing: the
\* call throws the Missing app key error.
C3_ExtractorReturnsHeaderOrFirst ==
    \A r \in Requests :
        (HasHeader(r) /\ Extracted(r)) =>
            /\ (HeaderOf(r).t = "string" /\ Len(HeaderOf(r).v) > 0) =>
                   (Returned(r) /\ SameValueZero(appKey[r], HeaderOf(r)))
            /\ (HeaderOf(r).t = "string" /\ Len(HeaderOf(r).v) = 0) =>
                   (error[r] = MISSING_APP_KEY /\ ~Returned(r))
            /\ HeaderOf(r).t = "array" =>
                   (Returned(r) /\ SameValueZero(appKey[r], FirstOf(HeaderOf(r))))

C3_Witness ==
    \E r1, r2 \in Requests :
        /\ HeaderOf(r1) = JSArray(<<S("foo"), S("bar")>>) /\ appKey[r1] = S("foo")
        /\ HeaderOf(r2) = S("foo") /\ appKey[r2] = S("foo")

\* every hyphen of k replaced by an underscore
Normalized(k) == [i \in 1..Len(k) |-> IF k[i] = 45 THEN 95 ELSE k[i]]
MessagePrefix == Str("matchID_app_")
NamePrefix == Str("app_")
\* the bytes hashed for credential k
MessageOf(k) == utf8Encode(MessagePrefix \o Normalized(k))
Last40(hex) == SubSeq(hex, Len(hex) - 39, Len(hex))
HexDigestOf(bytes) == digest([t |-> "Hash", v |-> bytes, finalized |-> FALSE])

\* identifiers computed outside the model (sha256 of the message, last 40
\* hexadecimal characters)
ReferenceNames == {
    <<Str("h31tx1inchlk6xku"), Str("app_4eee63802245e6d86b7e6ee64e38aebcdef079a3")>>,
    <<Str("MID-E53wKKWTqNzK7ccC"), Str("app_56636a9c09c06d1126b684c582dba2d02c36667d")>>,
    <<Str("u7unpdh6ehtvrt4b"), Str("app_152c611e2bce5ce329ac90db337b4edf7acdd688")>>,
    <<Str("hzpzvyztoqsxchve"), Str("app_f2e61316615f6fefc405c26c799d5c1443582dfa")>>,
    <<Str("tpi2xy2tg04r2yih"), Str("app_6b6ed56c17e20ccc58fc764300fc51072b951a58")>>,
    <<Str("MID-otzQVokbxhN3U9KB"), Str("app_5a07c6d3c73dc4b94de16356547db3b8d6f12d01")>>,
    <<Str("MID-D-RRLYBHrmPPOmm3jL"), Str("app_4a1dc5f29337ef390b61c1cf6faecb470babfa23")>>,
    <<Str("MID-D-4VMFnTg0xmwfIE1W"), Str("app_f6a87cc96f59c05794f494b7cec0167a2a860265")>>,
    <<Str("MID-MQZcupsb0vaJneBC"), Str("app_b3cd01837d1c5585d721390fbfde5796c61c8407")>>,
    <<Str("MID-w04hXgbIjqQRuVSa"), Str("app_0ed62925e5b0a13f617a6449efc687fc8938e939")>>,
    <<Str(""), Str("app_56acfd059446ed16cc8858125f6202a91d5203f3")>>,
    <<Str("foo"), Str("app_1b9eb40b53b67ebc6171fd8cab72397a73c16a1e")>>,
    <<Str("bogus"), Str("app_b15a564e264783adb10a6f7c3709f2173dba0662")>>,
    <<(<<233>>), Str("app_198fc70d139a10f6c3a2abcd411f33df3c6c00c8")>>,
    <<(<<55296>>), Str("app_c7348479bc4a5a14889f9072735ceb46ffb05379")>>,
    <<(<<55357, 56832>>), Str("app_8477cf4f81423c03f621959d69e0116d396c03a6")>>,
    <<(<<8364, 45, 97>>), Str("app_93b68a63eee8fb2c575dfeb0ce6c1bc5a45d1f61")>> }

NotBegun == \A r \in Requests : pc[r] = "extract"

\* C4: getEncryptedDBName(k) is 'app_' followed by the last 40 characters of
\* the lowercase hexadecimal SHA-256 digest of 'matchID_app_' + N(k), N(k)
\* being k with every hyphen replaced by an underscore; the hashed message
\* holds no hyphen.
C4_NameIsHashOfNormalizedKey ==
    /\ NotBegun =>
           \A p \in ReferenceNames : getEncryptedDBName(JSString(p[1])).ret = JSString(p[2])
    /\ \A i \in 1..Len(hasher.v) : hasher.v[i] # 45
    /\ hasher.finalized =>
           \E r \in Requests : Derived(r) /\ appKey[r].t = "string"
                               /\ hasher.v = MessageOf(appKey[r].v)
    /\ \A r \in Requests :
          (Derived(r) /\ appKey[r].t = "string") =>
              /\ dbName[r].t = "string"
              /\ dbName[r].v = NamePrefix \o Last40(HexDigestOf(MessageOf(appKey[r].v)))
              /\ \A p \in ReferenceNames : appKey[r].v = p[1] => dbName[r].v = p[2]

C4_Witness ==
    \E r \in Requests :
        /\ appKey[r] = S("MID-D-RRLYBHrmPPOmm3jL")
        /\ hasher.finalized
        /\ hasher.v = Str("matchID_app_MID_D_RRLYBHrmPPOmm3jL")
        /\ dbName[r] = S("app_4a1dc5f29337ef390b61c1cf6faecb470babfa23")

IsLowerHex(u) == (u >= 48 /\ u <= 57) \/ (u >= 97 /\ u <= 102)

\* C5: for every credential string, the empty string and strings with
\* non-ASCII characters included, getEncryptedDBName returns (it does not
\* throw) a string of length 44: 'app_' and 40 lowercase hexadecimal
\* characters.
C5_NameFormat ==
    \A r \in Requests :
        (appKey[r].t = "string" /\ pc[r] \notin {"extract", "validate", "derive"}) =>
            /\ dbName[r].t = "string"
            /\ Len(dbName[r].v) = 44
            /\ SubSeq(dbName[r].v, 1, 4) = NamePrefix
            /\ \A i \in 5..44 : IsLowerHex(dbName[r].v[i])

C5_Witness ==
    \E r1, r2 \in Requests :
        /\ appKey[r1] = S("") /\ Derived(r1) /\ Len(dbName[r1].v) = 44
        /\ appKey[r2] = JSString(<<8364, 45, 97>>) /\ Derived(r2) /\ Len(dbName[r2].v) = 44

\* C6: two calls of getEncryptedDBName with the same credential return the
\* same identifier, whatever calls ran before or between them.
C6_Deterministic ==
    \A r1, r2 \in Requests :
        (Derived(r1) /\ Derived(r2) /\ SameValueZero(appKey[r1], appKey[r2])) =>
            SameValueZero(dbName[r1], dbName[r2])

C6_Witness ==
    \E r1, r2 \in Requests :
        /\ r1 # r2
        /\ appKey[r1] = S("u7unpdh6ehtvrt4b") /\ appKey[r2] = S("u7unpdh6ehtvrt4b")
        /\ HeaderOf(r1).t = "string" /\ HeaderOf(r2).t = "array"
        /\ dbName[r1] = S("app_152c611e2bce5ce329ac90db337b4edf7acdd688")
        /\ dbName[r2] = S("app_152c611e2bce5ce329ac90db337b4edf7acdd688")

\* C7 as claimed: two different credential strings never derive the same
\* identifier.
C7_Original ==
    \A r1, r2 \in Requests :
        (/\ Derived(r1) /\ Derived(r2)
         /\ appKey[r1].t = "string" /\ appKey[r2].t = "string"
         /\ appKey[r1].v # appKey[r2].v) =>
            dbName[r1].v # dbName[r2].v

\* C7 amended: two credentials whose hashed messages differ (the UTF-8 bytes
\* of the credentials with every hyphen replaced by an underscore) derive
\* different identifiers; credentials that differ only in hyphen against
\* underscore are hashed as the same message.
C7_DistinctMessagesDistinctNames ==
    \A r1, r2 \in Requests :
        (/\ Derived(r1) /\ Derived(r2)
         /\ appKey[r1].t = "string" /\ appKey[r2].t = "string"
         /\ utf8Encode(Normalized(appKey[r1].v)) # utf8Encode(Normalized(appKey[r2].v))) =>
            dbName[r1].v # dbName[r2].v

C7_Witness ==
    \E r1, r2 \in Requests :
        /\ appKey[r1] = S("h31tx1inchlk6xku") /\ appKey[r2] = S("H31TX1INCHLK6XKU")
        /\ Derived(r1) /\ Derived(r2)
        /\ dbName[r1].v # dbName[r2].v

C9_KeysNeverChange ==
    /\ APP_KEYS = APP_KEYS_INIT
    /\ Len(APP_KEYS) = 10
    /\ \A r1, r2 \in Requests :
          (Validated(r1) /\ Validated(r2) /\ SameValueZero(appKey[r1], appKey[r2])) =>
              valid[r1].v = valid[r2].v

C9_Witness ==
    \E r1, r2 \in Requests :
        /\ r1 # r2
        /\ Validated(r1) /\ valid[r1].v /\ Derived(r1)
        /\ Validated(r2) /\ valid[r2].v /\ Derived(r2)
        /\ appKey[r1] = appKey[r2]
        /\ APP_KEYS = APP_KEYS_INIT

\* the values an x-app-key header carries
CarriedBy(h) ==
    CASE h.t = "string" -> {h}
      [] h.t = "array" -> {h.v[i] : i \in 1..Len(h.v)}
      [] OTHER -> {}

\* C10: whenever getAppKeyFromContext returns, what it returns is a defined,
\* non-empty string, one of the values the x-app-key header carries.
C10_ReturnsNonEmptyString ==
    \A r \in Requests :
        Returned(r) =>
            /\ appKey[r].t = "string"
            /\ Len(appKey[r].v) > 0
            /\ appKey[r] \in CarriedBy(HeaderOf(r))

=============================================================================
